---- MODULE Spec2Model ----
(***************************************************************************)
(* Model of backend/app.py, the Boarding.ai simulation API.                *)
(*                                                                         *)
(* The three route handlers are `async def` bodies without an await, so    *)
(* each runs atomically on the event loop and is one action here.          *)
(*                                                                         *)
(* Conventions                                                             *)
(*   - a Python float is an integer number of tenths (75.0 is 750, 9.4 is  *)
(*     94); every float literal of the source has at most one decimal;     *)
(*   - an Optional value is a sequence: <<>> is None / omitted, <<v>> is v;*)
(*   - a run_id is a positive integer standing for one UUID string, and 0  *)
(*     stands for a string uuid4() never yields.                           *)
(***************************************************************************)
EXTENDS Integers, Sequences, FiniteSets, TLC

VARIABLES
    RUN_STORAGE,   \* the module-level dict run_id -> SimulateResponse
    call,          \* the HTTP call served last: route and its input
    reply,         \* what that call returned: status, body, detail
    issued,        \* history: the responses simulate has returned so far
    prevFetched    \* history: the payloads GETs before the last call returned

vars == <<RUN_STORAGE, call, reply, issued, prevFetched>>

\* Number of distinct values uuid4() can yield in the model.
MaxRunIds == 2

RunIds == 1..MaxRunIds

\* Path parameters of GET /simulation-result/{run_id}: any string.
LookupIds == 0..MaxRunIds

----------------------------------------------------------------------------
\* Request bodies (class Aircraft, Load, Boarding, Bags, Controls).

AircraftInputs ==
    { <<>>,
      <<[type |-> "A320", num_rows |-> 30, seats_per_row |-> 6, num_aisles |-> 1]>>,
      <<[type |-> "A320", num_rows |-> 0,  seats_per_row |-> 6, num_aisles |-> 1]>>,
      <<[type |-> "A320", num_rows |-> 30, seats_per_row |-> 0, num_aisles |-> 1]>>,
      <<[type |-> "A320", num_rows |-> 30, seats_per_row |-> 6, num_aisles |-> 3]>> }

LoadInputs == { <<[load_factor |-> f]>> : f \in {0, 10, 15} }

BoardingInputs ==
    { <<[method |-> "back_to_front", baseline_method |-> "random"]>>,
      <<[method |-> "teleport",      baseline_method |-> "random"]>>,
      <<[method |-> "back_to_front", baseline_method |-> "teleport"]>> }

BagsInputs == { <<[carry_on_rate |-> c, bin_capacity_per_row |-> 2]>> : c \in {5, 20} }

ControlsInputs ==
    { <<>>,
      <<[cost_per_minute_delay |-> <<>>]>>,
      <<[cost_per_minute_delay |-> <<1000>>]>> }

RequestInputs ==
    [aircraft : AircraftInputs, load : LoadInputs, boarding : BoardingInputs,
     bags : BagsInputs, controls : ControlsInputs]

\* class Controls: cost_per_minute_delay defaults to 75.0 when omitted.
DefaultCostPerMinuteDelay == 750

Controls(raw) ==
    [cost_per_minute_delay |->
        IF raw.cost_per_minute_delay = <<>> THEN DefaultCostPerMinuteDelay
        ELSE raw.cost_per_minute_delay[1]]

\* class SimulateRequest: aircraft, load, boarding and bags are required fields
\* (a body lacking one never reaches the handler); behavior and controls
\* default to None. The field types carry no range or enumeration constraint.
SimulateRequest(body) ==
    /\ body.aircraft # <<>>
    /\ body.load # <<>>
    /\ body.boarding # <<>>
    /\ body.bags # <<>>

\* class Assumptions: flights_per_year defaults to 1825.
Assumptions == [flights_per_year |-> 1825]

----------------------------------------------------------------------------
\* Calls and replies.

NoCall == [op |-> "none", body |-> <<>>, run_id |-> <<>>]

SimulateCall(body) == [op |-> "simulate", body |-> <<body>>, run_id |-> <<>>]

GetCall(run_id) == [op |-> "get", body |-> <<>>, run_id |-> <<run_id>>]

Ok(payload) == [status |-> 200, body |-> <<payload>>, detail |-> ""]

\* A reply without a SimulateResponse payload.
Plain(status, detail) == [status |-> status, body |-> <<>>, detail |-> detail]

\* The payload of the last reply, when that reply came from a successful GET.
Fetched ==
    IF call.op = "get" /\ reply.status = 200 THEN {reply.body[1]} ELSE {}

Init ==
    /\ RUN_STORAGE = <<>>
    /\ call = NoCall
    /\ reply = Plain(0, "")
    /\ issued = {}
    /\ prevFetched = {}

----------------------------------------------------------------------------
\* POST /simulate

\* Variant of response: the two percentile times exchanged.
response_percentiles_swapped(run_id) ==
    [run_id |-> run_id,
     total_boarding_time_sec |-> 1830,
     time_to_50_percent_sec |-> <<1540>>,
     time_to_90_percent_sec |-> <<740>>,
     num_aisle_conflicts |-> 142,
     max_aisle_queue_length |-> <<12>>,
     avg_wait_time_per_pax_sec |-> <<280>>,
     baseline_boarding_time_sec |-> 2020,
     delta_vs_baseline_sec |-> -190,
     percent_faster_vs_baseline |-> 94,
     dollars_saved_per_flight |-> 2250,
     dollars_saved_per_year |-> 4100000,
     assumptions |-> <<Assumptions>>]

\* Variant of response: the delta taken as baseline minus strategy.
response_delta_sign_flipped(run_id) ==
    [run_id |-> run_id,
     total_boarding_time_sec |-> 1830,
     time_to_50_percent_sec |-> <<740>>,
     time_to_90_percent_sec |-> <<1540>>,
     num_aisle_conflicts |-> 142,
     max_aisle_queue_length |-> <<12>>,
     avg_wait_time_per_pax_sec |-> <<280>>,
     baseline_boarding_time_sec |-> 2020,
     delta_vs_baseline_sec |-> 190,
     percent_faster_vs_baseline |-> 94,
     dollars_saved_per_flight |-> 2250,
     dollars_saved_per_year |-> 4100000,
     assumptions |-> <<Assumptions>>]

\* The SimulateResponse the handler constructs: every metric is a literal.
response(run_id) ==
    [run_id |-> run_id,
     total_boarding_time_sec |-> 1830,
     time_to_50_percent_sec |-> <<740>>,
     time_to_90_percent_sec |-> <<1540>>,
     num_aisle_conflicts |-> 142,
     max_aisle_queue_length |-> <<12>>,
     avg_wait_time_per_pax_sec |-> <<280>>,
     baseline_boarding_time_sec |-> 2020,
     delta_vs_baseline_sec |-> -190,
     percent_faster_vs_baseline |-> 94,
     dollars_saved_per_flight |-> 2250,
     dollars_saved_per_year |-> 4100000,
     assumptions |-> <<Assumptions>>]

\* Variant of Store: the dict is rebuilt with the new entry alone.
Store_dropping_others(storage, run_id, value) ==
    [k \in {run_id} |-> value]

\* RUN_STORAGE[run_id] = response
Store(storage, run_id, value) ==
    [k \in (DOMAIN storage) \cup {run_id} |->
        IF k = run_id THEN value ELSE storage[k]]

\* A body that fails validation is answered 422 by the framework and the
\* handler does not run. Otherwise uuid4() yields some run_id, the response is
\* built from it, stored under it and returned.
simulate(body) ==
    /\ call' = SimulateCall(body)
    /\ prevFetched' = prevFetched \cup Fetched
    /\ IF ~SimulateRequest(body)
       THEN /\ reply' = Plain(422, "Unprocessable Entity")
            /\ UNCHANGED <<RUN_STORAGE, issued>>
       ELSE \E run_id \in RunIds :
              /\ RUN_STORAGE' = Store(RUN_STORAGE, run_id, response(run_id))
              /\ reply' = Ok(response(run_id))
              /\ issued' = issued \cup {response(run_id)}

\* OPTIONS /simulate
simulate_options ==
    /\ call' = [op |-> "options", body |-> <<>>, run_id |-> <<>>]
    /\ reply' = Plain(200, "")
    /\ prevFetched' = prevFetched \cup Fetched
    /\ UNCHANGED <<RUN_STORAGE, issued>>

----------------------------------------------------------------------------
\* GET /simulation-result/{run_id}

\* Variant of get_simulation_result: RUN_STORAGE.pop(run_id) instead of a read.
get_simulation_result_pop(run_id) ==
    /\ call' = GetCall(run_id)
    /\ prevFetched' = prevFetched \cup Fetched
    /\ IF run_id \notin DOMAIN RUN_STORAGE
       THEN /\ reply' = Plain(404, "Run ID not found")
            /\ RUN_STORAGE' = RUN_STORAGE
       ELSE /\ reply' = Ok(RUN_STORAGE[run_id])
            /\ RUN_STORAGE' = [k \in (DOMAIN RUN_STORAGE) \ {run_id} |-> RUN_STORAGE[k]]
    /\ UNCHANGED issued

\* Variant of get_simulation_result: no membership test, so a missing key
\* raises KeyError and the framework answers 500.
get_simulation_result_unchecked(run_id) ==
    /\ call' = GetCall(run_id)
    /\ prevFetched' = prevFetched \cup Fetched
    /\ IF run_id \notin DOMAIN RUN_STORAGE
       THEN reply' = Plain(500, "Internal Server Error")
       ELSE reply' = Ok(RUN_STORAGE[run_id])
    /\ UNCHANGED <<RUN_STORAGE, issued>>

get_simulation_result(run_id) ==
    /\ call' = GetCall(run_id)
    /\ prevFetched' = prevFetched \cup Fetched
    /\ IF run_id \notin DOMAIN RUN_STORAGE
       THEN reply' = Plain(404, "Run ID not found")
       ELSE reply' = Ok(RUN_STORAGE[run_id])
    /\ UNCHANGED <<RUN_STORAGE, issued>>

\* GET /
root ==
    /\ call' = [op |-> "root", body |-> <<>>, run_id |-> <<>>]
    /\ reply' = Plain(200, "Boarding.ai Simulation API is running")
    /\ prevFetched' = prevFetched \cup Fetched
    /\ UNCHANGED <<RUN_STORAGE, issued>>

----------------------------------------------------------------------------

Next ==
    \/ \E body \in RequestInputs : simulate(body)
    \/ simulate_options
    \/ \E run_id \in LookupIds : get_simulation_result(run_id)
    \/ root

Spec == Init /\ [][Next]_vars

----------------------------------------------------------------------------
\* Vocabulary of the properties.

\* The response of the last call, when that call was a simulate that succeeded.
Produced ==
    IF call.op = "simulate" /\ reply.status = 200 THEN {reply.body[1]} ELSE {}

Stored == { RUN_STORAGE[k] : k \in DOMAIN RUN_STORAGE }

IssuedIds == { p.run_id : p \in issued }

NotFound == Plain(404, "Run ID not found")

\* The closed set of boarding policies the interface names as supported.
SupportedPolicies == {"back_to_front", "outside_in", "random", "zone"}

UnsupportedPolicy(body) ==
    /\ body.boarding # <<>>
    /\ \/ body.boarding[1].method \notin SupportedPolicies
       \/ body.boarding[1].baseline_method \notin SupportedPolicies

InvalidGeometry(body) ==
    /\ body.aircraft # <<>>
    /\ \/ body.aircraft[1].num_rows <= 0
       \/ body.aircraft[1].seats_per_row <= 0
       \/ body.aircraft[1].num_aisles \notin {1, 2}

\* A rate is in tenths: [0,1] is 0..10.
RateOutOfRange(body) ==
    \/ body.load # <<>> /\ body.load[1].load_factor \notin 0..10
    \/ body.bags # <<>> /\ body.bags[1].carry_on_rate \notin 0..10

ValidConfiguration(body) ==
    /\ SimulateRequest(body)
    /\ ~InvalidGeometry(body)
    /\ ~RateOutOfRange(body)
    /\ ~UnsupportedPolicy(body)

\* The cost per minute of delay a request asks for, 75.0 when it names none.
CostPerMinuteDelay(body) ==
    IF body.controls = <<>> THEN DefaultCostPerMinuteDelay
    ELSE Controls(body.controls[1]).cost_per_minute_delay

\* A call that produced no Simulation Response and left the store as it was.
Rejected ==
    /\ reply'.status >= 400
    /\ reply'.body = <<>>
    /\ RUN_STORAGE' = RUN_STORAGE

----------------------------------------------------------------------------
\* C1: every response simulate has returned stays stored under its run_id,
\* unchanged, and a GET of that run_id returns exactly that response, whatever
\* simulate and GET calls happened in between.
C1_IssuedResponseIsRetrieved ==
    \A p \in issued :
        /\ p.run_id \in DOMAIN RUN_STORAGE
        /\ RUN_STORAGE[p.run_id] = p
        /\ call = GetCall(p.run_id) => reply = Ok(p)

\* A GET returns an issued response after a second simulate and an earlier GET.
C1_Witness ==
    /\ call.op = "get"
    /\ reply.status = 200
    /\ reply.body[1] \in issued
    /\ Cardinality(issued) >= 2
    /\ prevFetched # {}

\* C2: all payloads GETs have returned for one run_id are identical, and a GET
\* leaves RUN_STORAGE unchanged.
C2_IdempotentRetrieval ==
    /\ [](\A p, q \in prevFetched \cup Fetched : p.run_id = q.run_id => p = q)
    /\ [][call'.op = "get" => RUN_STORAGE' = RUN_STORAGE]_vars

\* A run_id is fetched a second time, with another run stored besides it.
C2_Witness ==
    /\ call.op = "get"
    /\ reply.status = 200
    /\ \E p \in prevFetched : call.run_id = <<p.run_id>>
    /\ Cardinality(DOMAIN RUN_STORAGE) >= 2

\* C3: a GET for a run_id no earlier simulate returned answers 404 'Run ID not
\* found', without a payload, and leaves RUN_STORAGE unchanged.
C3_UnknownRunIdNotFound ==
    [][\A r \in LookupIds :
          (call' = GetCall(r) /\ r \notin IssuedIds)
              => (reply' = NotFound /\ RUN_STORAGE' = RUN_STORAGE)]_vars

\* An unknown run_id is looked up while other runs are stored.
C3_Witness ==
    /\ call.op = "get"
    /\ call.run_id[1] \notin IssuedIds
    /\ reply = NotFound
    /\ RUN_STORAGE # <<>>

\* C4: a simulate call naming an unsupported method or baseline_method returns
\* an error, produces no Simulation Response and adds nothing to RUN_STORAGE.
C4_UnsupportedPolicyRejected ==
    [][\A body \in RequestInputs :
          (call' = SimulateCall(body) /\ UnsupportedPolicy(body)) => Rejected]_vars

\* C5: a valid request with load_factor = 0 is answered with a response whose
\* total_boarding_time_sec and num_aisle_conflicts are both 0.
C5_ZeroLoadZeroTime ==
    \A body \in RequestInputs :
        (call = SimulateCall(body) /\ ValidConfiguration(body)
            /\ body.load[1].load_factor = 0)
        => /\ reply.status = 200
           /\ reply.body[1].total_boarding_time_sec = 0
           /\ reply.body[1].num_aisle_conflicts = 0

\* C6: a simulate call with invalid aircraft geometry, or with load_factor or
\* carry_on_rate outside [0,1], returns an error, produces no Simulation
\* Response and adds nothing to RUN_STORAGE.
C6_InvalidConfigurationRejected ==
    [][\A body \in RequestInputs :
          (call' = SimulateCall(body)
              /\ (InvalidGeometry(body) \/ RateOutOfRange(body))) => Rejected]_vars

\* C7: in every response simulate produces and every stored response,
\* total_boarding_time_sec >= time_to_90_percent_sec >= time_to_50_percent_sec >= 0.
C7_PercentileOrdering ==
    \A p \in Produced \cup Stored :
        /\ p.time_to_90_percent_sec # <<>>
        /\ p.time_to_50_percent_sec # <<>>
        /\ p.total_boarding_time_sec >= p.time_to_90_percent_sec[1]
        /\ p.time_to_90_percent_sec[1] >= p.time_to_50_percent_sec[1]
        /\ p.time_to_50_percent_sec[1] >= 0

\* simulate has just produced a response and earlier ones are stored too.
C7_Witness ==
    /\ Produced # {}
    /\ Cardinality(Stored) >= 2

\* C8: in every response simulate produces, delta_vs_baseline_sec is
\* total_boarding_time_sec minus baseline_boarding_time_sec, hence negative
\* exactly when the strategy is faster than the baseline.
C8_DeltaIsStrategyMinusBaseline ==
    \A p \in Produced :
        /\ p.delta_vs_baseline_sec
             = p.total_boarding_time_sec - p.baseline_boarding_time_sec
        /\ (p.delta_vs_baseline_sec < 0)
             <=> (p.total_boarding_time_sec < p.baseline_boarding_time_sec)

\* simulate has produced a response whose strategy beats the baseline.
C8_Witness ==
    \E p \in Produced :
        /\ p.total_boarding_time_sec < p.baseline_boarding_time_sec
        /\ p.delta_vs_baseline_sec < 0

\* C9: in every response simulate produces,
\* 60 * dollars_saved_per_flight = -delta_vs_baseline_sec * cost_per_minute_delay
\* for the request's cost_per_minute_delay (both money amounts in tenths).
C9_DollarsPerFlight ==
    \A body \in RequestInputs : \A p \in Produced :
        call = SimulateCall(body)
        => 60 * p.dollars_saved_per_flight
             = (0 - p.delta_vs_baseline_sec) * CostPerMinuteDelay(body)

\* C10: in every response simulate produces, dollars_saved_per_year is
\* dollars_saved_per_flight times the flights_per_year of its assumptions.
C10_DollarsPerYear ==
    \A p \in Produced :
        /\ p.assumptions # <<>>
        /\ p.dollars_saved_per_year
             = p.dollars_saved_per_flight * p.assumptions[1].flights_per_year

====
